---- MODULE Spec2Model ----
(***************************************************************************)
(* samples/entry_point.c: main() prints three addresses, masks the address *)
(* of the instruction buffer down to its page, asks mprotect to make that  *)
(* page read+execute, and calls the buffer as a function.                  *)
(*                                                                         *)
(* A size_t / pointer is 64 bits wide (the payload is x86-64 code) and is  *)
(* kept as four 16-bit limbs, least significant first, so that every       *)
(* operation stays inside the integers the model checker can hold.  An int *)
(* is 32 bits wide: two limbs.                                             *)
(***************************************************************************)
EXTENDS Integers, Sequences, FiniteSets, TLC

VARIABLES
    pc,           \* the line of main about to run, or "payload", "exited", "killed"
    target,       \* the value of the pointer `instructions`: the buffer's address
    payload,      \* the bytes found at that address
    stdoutMode,   \* "line" (stdout is a terminal) or "full" (a pipe or a file)
    stdbuf,       \* lines printf has accepted but stdio has not yet written
    out,          \* lines written to file descriptor 1
    errno,
    region,       \* size_t region; <<>> before line 16
    ret,          \* int ret; meaningful from line 23 on
    calls,        \* every mprotect request made: [addr, len, prot, ret, err]
    pageTable,    \* protection of the buffer's page and of the page after it
    protChanges,  \* how many times a protection in pageTable changed value
    invoked,      \* how many times f() was called
    returned,     \* how many times f() came back to main
    rip,          \* offset of the next payload instruction
    rax, rdi,     \* the registers the payload uses
    exitStatus    \* the process exit status; -1 while there is none

vars == <<pc, target, payload, stdoutMode, stdbuf, out, errno, region, ret,
          calls, pageTable, protChanges, invoked, returned, rip, rax, rdi,
          exitStatus>>

----------------------------------------------------------------------------
(* Bounds and inputs *)

\* How far around the interesting page offsets the buffer addresses are sampled.
EdgeSpan == 2

LimbBase == 2^16
LimbMax  == LimbBase - 1

----------------------------------------------------------------------------
(* Integer arithmetic of the C expressions *)

PAGE_LEN   == \h1000
LOW_MASK   == \hFFF
PROT_READ  == 1
PROT_WRITE == 2
PROT_EXEC  == 4

EACCES == 13
ENOMEM == 12
EINVAL == 22
ENOTTY == 25

RECURSIVE BitAndN(_, _, _)
\* x & y on n-bit operands
BitAndN(x, y, n) ==
    IF n = 0 THEN 0
    ELSE (x % 2) * (y % 2) + 2 * BitAndN(x \div 2, y \div 2, n - 1)

RECURSIVE BitOrN(_, _, _)
\* x | y on n-bit operands
BitOrN(x, y, n) ==
    IF n = 0 THEN 0
    ELSE (IF x % 2 = 1 \/ y % 2 = 1 THEN 1 ELSE 0)
         + 2 * BitOrN(x \div 2, y \div 2, n - 1)

\* An integer literal below 2^16 has type int: 32 bits.
IntLiteral(v) == <<v, 0>>

\* ~x on an int
BitNotInt(x) == [i \in 1..2 |-> LimbMax - x[i]]

\* The conversion of an unsigned int to size_t: the value is kept, the upper
\* half is zero.
UIntToSizeT(x) == x \o <<0, 0>>

\* The usual arithmetic conversion of an int operand to size_t: the value
\* modulo 2^64, so a negative int (top bit set) fills the upper half with ones.
IntToSizeT(x) ==
    x \o (IF x[2] >= LimbBase \div 2 THEN <<LimbMax, LimbMax>> ELSE <<0, 0>>)

\* a & b on size_t
BitAndSizeT(a, b) == [i \in 1..4 |-> BitAndN(a[i], b[i], 16)]

\* ~0xFFF, an int, as the right operand of region & (...)
PageMask == IntToSizeT(BitNotInt(IntLiteral(LOW_MASK)))

\* region & (~0xFFF) with the unsigned literal 0xFFFu
PageBaseUnsignedMask(a) == BitAndSizeT(a, UIntToSizeT(BitNotInt(IntLiteral(LOW_MASK))))

\* size_t region = (size_t) instructions; region = region & (~0xFFF);
PageBase(a) == BitAndSizeT(a, PageMask)

\* a + k for 0 <= k < 2^16, as the five-limb sum without wrap-around
AddWide(a, k) ==
    LET s1 == a[1] + k
        s2 == a[2] + (s1 \div LimbBase)
        s3 == a[3] + (s2 \div LimbBase)
        s4 == a[4] + (s3 \div LimbBase)
    IN  <<s1 % LimbBase, s2 % LimbBase, s3 % LimbBase, s4 % LimbBase,
          s4 \div LimbBase>>

\* a + k in pointer arithmetic: modulo 2^64
AddWrap(a, k) == SubSeq(AddWide(a, k), 1, 4)

Wide(a) == a \o <<0>>

RECURSIVE LessFrom(_, _, _)
\* a < b, comparing limbs i, i-1, ..., 1
LessFrom(a, b, i) ==
    IF i = 0 THEN FALSE
    ELSE IF a[i] # b[i] THEN a[i] < b[i]
    ELSE LessFrom(a, b, i - 1)

Less(a, b)   == LessFrom(a, b, Len(a))
LessEq(a, b) == a = b \/ Less(a, b)

\* The page holding address a, by division rather than by masking.
PageFloor(a) == <<a[1] - (a[1] % PAGE_LEN), a[2], a[3], a[4]>>

\* Address x lies in [base, base + PAGE_LEN)
InPage(x, base) == LessEq(base, x) /\ Less(Wide(x), AddWide(base, PAGE_LEN))

----------------------------------------------------------------------------
(* The instruction buffer *)

\* The buffer with system call 39 (getpid) in place of 60: bytes 5..8 hold
\* the number.
instructionsGetpid == <<\h48, \h31, \hFF, \hB8, \h27, \h00, \h00, \h00, \h0F, \h05>>

\* const char* instructions = "\x48\x31\xff\xB8\x3C\x00\x00\x00\x0F\x05";
instructions == <<\h48, \h31, \hFF, \hB8, \h3C, \h00, \h00, \h00, \h0F, \h05>>

\* A buffer that returns to its caller at once: a single `ret`.
RetStub == <<\hC3>>

Payloads == {instructions, RetStub}

\* Offsets of the buffer inside its page: the start of the page, the last
\* offsets at which ten bytes still fit, the first at which they do not, and
\* the end of the page.
Offsets ==
    (0 .. EdgeSpan)
    \cup ((PAGE_LEN - 10 - EdgeSpan) .. (PAGE_LEN - 10 + EdgeSpan))
    \cup ((PAGE_LEN - 1 - EdgeSpan) .. (PAGE_LEN - 1))

\* The upper 48 bits of the sampled addresses: a non-PIE image at 0x400000,
\* a PIE image at 0x5555_5555_xxxx, the top of the user half, and the top of
\* the address space.
HighParts ==
    { <<\h0040, \h0000, \h0000>>,
      <<\h5555, \h5555, \h0000>>,
      <<\hFFFF, \h7FFF, \h0000>>,
      <<\hFFFF, \hFFFF, \hFFFF>> }

PageNibbles == {0, 4, 15}

Addresses ==
    { <<n * PAGE_LEN + o>> \o h : n \in PageNibbles, o \in Offsets, h \in HighParts }

\* The page after the buffer's page (modulo 2^64).
NextPage(a) == AddWrap(PageFloor(a), PAGE_LEN)

ProtR  == PROT_READ
ProtRX == BitOrN(PROT_READ, PROT_EXEC, 3)

----------------------------------------------------------------------------
(* stdio *)

Line(fmt, arg) == [text |-> fmt, arg |-> arg]

\* What the stream holds and what reached the descriptor after one printf of
\* a line that ends in '\n': a line-buffered stream writes at the newline, a
\* fully buffered one keeps the line (the lines of one run never fill BUFSIZ).
BufAfterPrintf(l) == IF stdoutMode = "line" THEN <<>> ELSE Append(stdbuf, l)
OutAfterPrintf(l) == IF stdoutMode = "line" THEN out \o stdbuf \o <<l>> ELSE out

\* printf may leave errno changed even when it succeeds (stdio probes the
\* descriptor with isatty on first use).
ErrnoAfterPrintf == {errno, ENOTTY}

Printf(l) ==
    /\ stdbuf' = BufAfterPrintf(l)
    /\ out' = OutAfterPrintf(l)
    /\ errno' \in ErrnoAfterPrintf

\* strerror
StrError(e) ==
    CASE e = EACCES -> "Permission denied"
      [] e = ENOMEM -> "Cannot allocate memory"
      [] e = EINVAL -> "Invalid argument"
      [] e = ENOTTY -> "Inappropriate ioctl for device"
      [] OTHER      -> "Success"

\* _exit(): the process ends with whatever stdio still holds unwritten.
RawExit(status) ==
    /\ UNCHANGED <<out, stdbuf>>
    /\ exitStatus' = status
    /\ pc' = "exited"

\* exit(): the C library flushes stdout before the process ends.
LibcExit(status) ==
    /\ out' = out \o stdbuf
    /\ stdbuf' = <<>>
    /\ exitStatus' = status
    /\ pc' = "exited"

----------------------------------------------------------------------------
Init ==
    /\ pc = "l12"
    /\ target \in Addresses
    /\ payload \in Payloads
    /\ stdoutMode \in {"line", "full"}
    /\ stdbuf = <<>>
    /\ out = <<>>
    /\ errno = 0
    /\ region = <<>>
    /\ ret = 0
    /\ calls = <<>>
    /\ pageTable \in [{"buffer", "next"} -> {ProtR, ProtRX}]
    /\ protChanges = 0
    /\ invoked = 0
    /\ returned = 0
    /\ rip = 0
    /\ rax = 0
    /\ rdi = 0
    /\ exitStatus = -1

\* Everything a printf leaves alone.
PrintfFrame ==
    UNCHANGED <<target, payload, stdoutMode, region, ret, calls, pageTable,
                protChanges, invoked, returned, rip, rax, rdi, exitStatus>>

\* printf("main @ %p\n", main);
PrintMain ==
    /\ pc = "l12"
    /\ Printf(Line("main @ %p\n", "main"))
    /\ pc' = "l13"
    /\ PrintfFrame

\* printf("instructions @ %p\n", instructions);
PrintInstructions ==
    /\ pc = "l13"
    /\ Printf(Line("instructions @ %p\n", target))
    /\ pc' = "l16"
    /\ PrintfFrame

\* size_t region = (size_t) instructions; region = region & (~0xFFF);
ComputeRegion ==
    /\ pc = "l16"
    /\ region' = PageBase(target)
    /\ pc' = "l20"
    /\ UNCHANGED <<target, payload, stdoutMode, stdbuf, out, errno, ret, calls,
                   pageTable, protChanges, invoked, returned, rip, rax, rdi,
                   exitStatus>>

\* printf("Page start: %p\n", (void*) region);
PrintPageStart ==
    /\ pc = "l20"
    /\ Printf(Line("Page start: %p\n", region))
    /\ pc' = "l22"
    /\ PrintfFrame

\* printf("making instructions executable...\n");
PrintMaking ==
    /\ pc = "l22"
    /\ Printf(Line("making instructions executable...\n", <<>>))
    /\ pc' = "l23"
    /\ PrintfFrame

----------------------------------------------------------------------------
(* mprotect, as the kernel answers it *)

\* The second argument of the call: 0x1000
MprotectLen == PAGE_LEN

\* The protection with write permission left in.
MprotectProtWritable == BitOrN(BitOrN(PROT_READ, PROT_WRITE, 3), PROT_EXEC, 3)

\* The third argument of the call: PROT_READ | PROT_EXEC
MprotectProt == BitOrN(PROT_READ, PROT_EXEC, 3)

PageAddr(p) == IF p = "buffer" THEN PageFloor(target) ELSE NextPage(target)

\* The pages of [addr, addr + len)
MprotectCovers(addr, len, page) ==
    \E k \in 0 .. ((len - 1) \div PAGE_LEN) : AddWrap(addr, k * PAGE_LEN) = page

\* The answers the kernel can give: EINVAL for an address that is not a
\* multiple of the page size; otherwise success, or a refusal (EACCES, ENOMEM).
MprotectOutcomes(addr, len, prot) ==
    IF addr[1] % PAGE_LEN # 0
    THEN { [ret |-> -1, err |-> EINVAL] }
    ELSE { [ret |-> 0, err |-> 0],
           [ret |-> -1, err |-> EACCES],
           [ret |-> -1, err |-> ENOMEM] }

TableAfterMprotect(addr, len, prot, r) ==
    IF r.ret = 0
    THEN [p \in DOMAIN pageTable |->
            IF MprotectCovers(addr, len, PageAddr(p)) THEN prot ELSE pageTable[p]]
    ELSE pageTable

\* The call site with a retry loop around it.
AtMprotectOrRetry == pc = "l23" \/ (pc = "l29" /\ ret # 0 /\ Len(calls) < 3)

\* The line at which main asks for the protection change.
AtMprotect == pc = "l23"

\* int ret = mprotect((void *) region, 0x1000, PROT_READ | PROT_EXEC);
CallMprotect ==
    /\ AtMprotect
    /\ \E r \in MprotectOutcomes(region, MprotectLen, MprotectProt) :
         /\ calls' = Append(calls, [addr |-> region, len |-> MprotectLen,
                                    prot |-> MprotectProt, ret |-> r.ret,
                                    err |-> r.err])
         /\ ret' = r.ret
         /\ errno' = IF r.ret = 0 THEN errno ELSE r.err
         /\ pageTable' = TableAfterMprotect(region, MprotectLen, MprotectProt, r)
         /\ protChanges' = protChanges
                + (IF TableAfterMprotect(region, MprotectLen, MprotectProt, r)
                      # pageTable THEN 1 ELSE 0)
    /\ pc' = "l29"
    /\ UNCHANGED <<target, payload, stdoutMode, stdbuf, out, region, invoked,
                   returned, rip, rax, rdi, exitStatus>>

\* The error branch with the message printed in two calls: the second reads
\* errno after the first printf may have changed it.
ReportFailureErrnoClobbered ==
    /\ pc = "l29"
    /\ ret # 0
    /\ \E e \in ErrnoAfterPrintf :
         /\ errno' = e
         /\ out' = out \o stdbuf
                 \o <<Line("mprotect failed: error %s\n", StrError(e))>>
    /\ stdbuf' = <<>>
    /\ exitStatus' = 1
    /\ pc' = "exited"
    /\ UNCHANGED <<target, payload, stdoutMode, region, ret, calls, pageTable,
                   protChanges, invoked, returned, rip, rax, rdi>>

\* The error branch without its return statement.
ReportFailureNoReturn ==
    /\ pc = "l29"
    /\ ret # 0
    /\ Printf(Line("mprotect failed: error %s\n", StrError(errno)))
    /\ pc' = "l34"
    /\ UNCHANGED <<target, payload, stdoutMode, region, ret, calls, pageTable,
                   protChanges, invoked, returned, rip, rax, rdi, exitStatus>>

\* if (ret != 0) { printf("mprotect failed: error %s\n", strerror(errno));
\*                 return 1; }
\* strerror(errno) is evaluated before printf runs; returning from main is
\* exit(1), which flushes stdout.
ReportFailure ==
    /\ pc = "l29"
    /\ ret # 0
    /\ \E e \in ErrnoAfterPrintf :
         /\ errno' = e
         /\ out' = out \o stdbuf
                 \o <<Line("mprotect failed: error %s\n", StrError(errno))>>
    /\ stdbuf' = <<>>
    /\ exitStatus' = 1
    /\ pc' = "exited"
    /\ UNCHANGED <<target, payload, stdoutMode, region, ret, calls, pageTable,
                   protChanges, invoked, returned, rip, rax, rdi>>

\* if (ret != 0) is false: void (*f)(void) = (void*) instructions;
TakeAddress ==
    /\ pc = "l29"
    /\ ret = 0
    /\ pc' = "l34"
    /\ UNCHANGED <<target, payload, stdoutMode, stdbuf, out, errno, region, ret,
                   calls, pageTable, protChanges, invoked, returned, rip, rax,
                   rdi, exitStatus>>

\* printf("jumping...\n");
PrintJumping ==
    /\ pc = "l34"
    /\ Printf(Line("jumping...\n", <<>>))
    /\ pc' = "l36"
    /\ PrintfFrame

----------------------------------------------------------------------------
(* f(): the processor runs the bytes at the buffer's address *)

\* The call without the transfer of control.
CallBufferSkipped ==
    /\ pc = "l36"
    /\ pc' = "l37"
    /\ UNCHANGED <<target, payload, stdoutMode, stdbuf, out, errno, region, ret,
                   calls, pageTable, protChanges, invoked, returned, rip, rax,
                   rdi, exitStatus>>

\* f();
CallBuffer ==
    /\ pc = "l36"
    /\ invoked' = invoked + 1
    /\ rip' = 0
    /\ pc' = "payload"
    /\ UNCHANGED <<target, payload, stdoutMode, stdbuf, out, errno, region, ret,
                   calls, pageTable, protChanges, returned, rax, rdi,
                   exitStatus>>

HasExec(prot) == BitAndN(prot, PROT_EXEC, 3) # 0

\* May the processor fetch an instruction byte from address x?
Executable(x) ==
    IF InPage(x, PageFloor(target)) THEN HasExec(pageTable["buffer"])
    ELSE IF InPage(x, NextPage(target)) THEN HasExec(pageTable["next"])
    ELSE FALSE

Fetchable(i, n) == \A j \in 0 .. (n - 1) : Executable(AddWrap(target, i + j))

\* The instruction at offset i of the buffer.
Decode(bytes, i) ==
    LET n == Len(bytes)
        b(j) == bytes[i + j]
    IN  IF i + 3 <= n /\ b(1) = \h48 /\ b(2) = \h31 /\ b(3) = \hFF
          THEN [op |-> "xor rdi, rdi", len |-> 3, imm |-> 0]
        ELSE IF i + 5 <= n /\ b(1) = \hB8
          THEN [op |-> "mov eax, imm32", len |-> 5,
                imm |-> b(2) + 2^8 * b(3) + 2^16 * b(4) + 2^24 * (b(5) % 128)]
        ELSE IF i + 2 <= n /\ b(1) = \h0F /\ b(2) = \h05
          THEN [op |-> "syscall", len |-> 2, imm |-> 0]
        ELSE IF i + 1 <= n /\ b(1) = \hC3
          THEN [op |-> "ret", len |-> 1, imm |-> 0]
        ELSE [op |-> "undefined", len |-> 1, imm |-> 0]

\* System call 60 of x86-64 Linux is exit: it ends the process with the low
\* byte of rdi as status and does not run the C library's exit handlers.
SYS_exit == 60

\* Where control is after the instruction at rip: inside the payload, back in
\* main, or nowhere because the process ended.  Bytes that are no instruction
\* of the buffer have no defined effect: the process may be killed or control
\* may find its way back to main.
ExecInstruction ==
    /\ pc = "payload"
    /\ LET ins == Decode(payload, rip) IN
       IF ~Fetchable(rip, ins.len)
       THEN /\ pc' = "killed"
            /\ UNCHANGED <<rip, rax, rdi, returned, exitStatus>>
       ELSE CASE ins.op = "xor rdi, rdi" ->
                   /\ rdi' = 0
                   /\ rip' = rip + ins.len
                   /\ UNCHANGED <<pc, rax, returned, exitStatus>>
              [] ins.op = "mov eax, imm32" ->
                   /\ rax' = ins.imm
                   /\ rip' = rip + ins.len
                   /\ UNCHANGED <<pc, rdi, returned, exitStatus>>
              [] ins.op = "syscall" ->
                   IF rax = SYS_exit
                   THEN /\ pc' = "exited"
                        /\ exitStatus' = rdi % 256
                        /\ UNCHANGED <<rip, rax, rdi, returned>>
                   ELSE /\ rax' = 0
                        /\ rip' = rip + ins.len
                        /\ UNCHANGED <<pc, rdi, returned, exitStatus>>
              [] ins.op = "ret" ->
                   /\ pc' = "l37"
                   /\ returned' = returned + 1
                   /\ UNCHANGED <<rip, rax, rdi, exitStatus>>
              [] OTHER ->
                   /\ pc' \in {"killed", "l37"}
                   /\ returned' = returned + (IF pc' = "l37" THEN 1 ELSE 0)
                   /\ UNCHANGED <<rip, rax, rdi, exitStatus>>
    /\ UNCHANGED <<target, payload, stdoutMode, stdbuf, out, errno, region, ret,
                   calls, pageTable, protChanges, invoked>>

\* printf("after jump\n");
PrintAfterJump ==
    /\ pc = "l37"
    /\ Printf(Line("after jump\n", <<>>))
    /\ pc' = "l38"
    /\ PrintfFrame

\* The closing brace of main: return 0, that is exit(0).
ReturnFromMain ==
    /\ pc = "l38"
    /\ LibcExit(0)
    /\ UNCHANGED <<target, payload, stdoutMode, errno, region, ret, calls,
                   pageTable, protChanges, invoked, returned, rip, rax, rdi>>

Next ==
    \/ PrintMain
    \/ PrintInstructions
    \/ ComputeRegion
    \/ PrintPageStart
    \/ PrintMaking
    \/ CallMprotect
    \/ ReportFailure
    \/ TakeAddress
    \/ PrintJumping
    \/ CallBuffer
    \/ ExecInstruction
    \/ PrintAfterJump
    \/ ReturnFromMain

Spec == Init /\ [][Next]_vars

----------------------------------------------------------------------------
(* Properties *)

\* The mprotect request was made and answered 0 / answered non-zero.
Succeeded == Len(calls) >= 1 /\ calls[Len(calls)].ret = 0
Failed    == \E i \in 1 .. Len(calls) : calls[i].ret # 0

\* Every line handed to printf so far, written or not.
Printed == out \o stdbuf

Texts(s) == [i \in 1 .. Len(s) |-> s[i].text]

HasLine(s, t) == \E i \in 1 .. Len(s) : s[i].text = t

\* Line t1 occurs in s before line t2.
InOrder(s, t1, t2) ==
    \E i, j \in 1 .. Len(s) : i < j /\ s[i].text = t1 /\ s[j].text = t2

\* C1: once main has computed the page base P of the buffer address A,
\* P <= A < P + 4096, P is a multiple of 4096, and the bits of A above the
\* low twelve are all kept in P.
C1_PageBaseHoldsAddress ==
    region # <<>> =>
        /\ LessEq(region, target)
        /\ Less(Wide(target), AddWide(region, 4096))
        /\ region[1] % 4096 = 0
        /\ \A i \in 2 .. 4 : region[i] = target[i]
        /\ region[1] \div 4096 = target[1] \div 4096

\* An address with every high bit set and a non-zero page offset was masked.
C1_Witness ==
    /\ pc = "l20"
    /\ target[4] = LimbMax /\ target[3] = LimbMax /\ target[2] = LimbMax
    /\ target[1] % 4096 # 0
    /\ region = PageFloor(target)

\* C2: when mprotect has answered non-zero the buffer is never invoked,
\* "jumping..." is never handed to printf, main is at its error branch or
\* the process has exited, and an exit has status 1.
C2_FailureStopsBeforeJump ==
    Failed =>
        /\ invoked = 0
        /\ ~HasLine(Printed, "jumping...\n")
        /\ pc \in {"l29", "exited"}
        /\ (pc = "exited" => exitStatus = 1)

\* mprotect failed and the process has exited with status 1.
C2_Witness == Failed /\ pc = "exited" /\ exitStatus = 1 /\ invoked = 0

\* C3: when mprotect has answered 0 the buffer is invoked at most once, and
\* exactly once by the time control is inside it, back from it, or the
\* process has ended.
C3_InvokedExactlyOnce ==
    Succeeded =>
        /\ invoked <= 1
        /\ (pc \in {"payload", "l37", "l38", "exited", "killed"} => invoked = 1)

\* A run in which the buffer was invoked, returned, and main ran to its end.
C3_Witness == Succeeded /\ pc = "exited" /\ invoked = 1 /\ returned = 1

\* C4: with the documented payload and a successful mprotect, what has been
\* written to standard output when the process exits is the five trace lines
\* in order, and the exit status is 0.
C4_FiveLinesAtExit ==
    (pc = "exited" /\ payload = instructions /\ Succeeded) =>
        /\ exitStatus = 0
        /\ Texts(out) = << "main @ %p\n", "instructions @ %p\n",
                           "Page start: %p\n",
                           "making instructions executable...\n",
                           "jumping...\n" >>

\* C5: when mprotect failed and the process has exited, the status is 1 and
\* standard output holds exactly one "mprotect failed" line, after the line
\* "making instructions executable...", carrying the description of the
\* error that mprotect call reported.
C5_ErrorLineNamesMprotectError ==
    (pc = "exited" /\ Failed) =>
        /\ exitStatus = 1
        /\ InOrder(out, "making instructions executable...\n",
                   "mprotect failed: error %s\n")
        /\ Cardinality({i \in 1 .. Len(out) :
                          out[i].text = "mprotect failed: error %s\n"}) = 1
        /\ \A i \in 1 .. Len(out) :
             out[i].text = "mprotect failed: error %s\n"
                => out[i].arg = StrError(calls[Len(calls)].err)

\* A denied request on a fully buffered stdout, reported and flushed.
C5_Witness ==
    /\ pc = "exited"
    /\ Failed
    /\ stdoutMode = "full"
    /\ calls[1].err = EACCES
    /\ out[Len(out)].text = "mprotect failed: error %s\n"
    /\ out[Len(out)].arg = "Permission denied"

\* C6: mprotect is requested at most once, exactly once in every run that
\* has passed line 23, the protections change at most once, and after the
\* request a read+execute buffer page stays read+execute.
C6_OneProtectionRequest ==
    /\ [](/\ Len(calls) <= 1
          /\ (pc \notin {"l12", "l13", "l16", "l20", "l22", "l23"}
                => Len(calls) = 1)
          /\ protChanges <= 1)
    /\ [][(Len(calls) = 1 /\ pageTable["buffer"] = ProtRX)
            => (Len(calls') = 1 /\ pageTable'["buffer"] = ProtRX)]_vars

\* The one request changed the buffer's page from read to read+execute and
\* the process ran to its end.
C6_Witness ==
    /\ pc = "exited"
    /\ Len(calls) = 1
    /\ protChanges = 1
    /\ pageTable["buffer"] = ProtRX

\* C7: when mprotect succeeded and the buffer returned, control is in main
\* after the call; at exit "after jump" follows "jumping..." on standard
\* output and the status is 0.  An exit status of 1 occurs only after a
\* failed mprotect.
C7_ReturnContinuesMain ==
    /\ (Succeeded /\ returned >= 1) =>
          /\ pc \in {"l37", "l38", "exited"}
          /\ (pc = "exited" =>
                /\ exitStatus = 0
                /\ InOrder(out, "jumping...\n", "after jump\n"))
    /\ (pc = "exited" /\ exitStatus = 1) => Failed

\* The buffer returned and main ended, on a fully buffered stdout.
C7_Witness ==
    /\ pc = "exited"
    /\ Succeeded
    /\ returned = 1
    /\ stdoutMode = "full"
    /\ out[Len(out)].text = "after jump\n"

\* C8: with the reference payload, once the buffer is invoked control is
\* inside it or the process has ended; it never returns to main and
\* "after jump" is never handed to printf.
C8_ReferencePayloadNeverReturns ==
    (payload = instructions /\ invoked >= 1) =>
        /\ returned = 0
        /\ pc \in {"payload", "exited", "killed"}
        /\ ~HasLine(Printed, "after jump\n")

\* The reference payload ran to its exit system call.
C8_Witness ==
    /\ payload = instructions
    /\ invoked = 1
    /\ pc = "exited"
    /\ exitStatus = 0
    /\ rax = 60

\* C9: every mprotect request names an address that is a multiple of 4096
\* and the base of the page holding the buffer's first byte, a length of
\* 4096, and the protection read+execute without write.
C9_MprotectArguments ==
    \A i \in 1 .. Len(calls) :
        /\ calls[i].addr[1] % 4096 = 0
        /\ calls[i].addr = PageFloor(target)
        /\ calls[i].len = 4096
        /\ calls[i].prot = PROT_READ + PROT_EXEC
        /\ BitAndN(calls[i].prot, PROT_WRITE, 3) = 0

\* The request was made for a buffer at the last byte of a page high in the
\* address space.
C9_Witness ==
    /\ Len(calls) = 1
    /\ target[1] % 4096 = 4095
    /\ target[4] = LimbMax
    /\ calls[1].ret = 0

\* C10: when the reference payload is invoked, each of its ten bytes lies in
\* the range [P, P + 4096) of the mprotect request.
C10_PayloadInsideProtectedPage ==
    (pc = "payload" /\ payload = instructions) =>
        \A i \in 0 .. 9 : InPage(AddWrap(target, i), calls[1].addr)

====
